---- MODULE Spec2Model ----
(***************************************************************************)
(* Model of build_opening_book.py: LichessOpeningBookBuilder and main().    *)
(*                                                                         *)
(* Strings are sequences of one-character strings, so that ' '.join and     *)
(* str.split(' ') are computed character by character.  The dict            *)
(* game_database is a sequence of entries in insertion order (Python dicts  *)
(* iterate in insertion order); an entry carries its key.  A list whose     *)
(* order is produced by list(set(...)) is a bag: its order is arbitrary,    *)
(* its multiplicities are not.                                              *)
(***************************************************************************)
EXTENDS Integers, Sequences, FiniteSets, Bags, TLC

VARIABLES pc, file, i, game_database, processed_games,
          opening_book_2014, opening_book_2016, merged_book,
          budget, records, before_filter, removed_keys, removed_moves

vars == <<pc, file, i, game_database, processed_games,
          opening_book_2014, opening_book_2016, merged_book,
          budget, records, before_filter, removed_keys, removed_moves>>

(* ---- program constants ---- *)
min_games == 3
max_depth == 15
max_games == 100000

(* ---- bounds of the model ---- *)
MaxRecords == 5
BulkStart == 11
BulkRecords == 4

(* ---- corpus records, as extract_moves_from_game returns them ---- *)
LongGame ==
  << <<"e","4">>, <<"e","5">>, <<"N","f","3">>, <<"N","c","6">>,
     <<"B","b","5">>, <<"a","6">>, <<"B","a","4">>, <<"N","f","6">>,
     <<"d","3">>, <<"b","5">>, <<"B","b","3">>, <<"B","e","7">>,
     <<"c","3">>, <<"d","6">>, <<"a","4">>, <<"B","d","7">>, <<"h","3">> >>

AltGame == << <<"e","4">>, <<"e","5">>, <<"N","f","3">>, <<"d","6">> >>

ShortGame == << <<"d","4">>, <<"d","5">>, <<"c","4">> >>

GameList == <<LongGame, AltGame, ShortGame, <<>> >>

Games == {GameList[n] : n \in 1..Len(GameList)}

(* ---- helpers ---- *)
Min(a, b) == IF a < b THEN a ELSE b

Max(a, b) == IF a > b THEN a ELSE b

Range(s) == {s[n] : n \in 1..Len(s)}

RECURSIVE Sum(_)
Sum(s) == IF s = <<>> THEN 0 ELSE Head(s) + Sum(Tail(s))

RECURSIVE Concat(_)
Concat(ss) == IF ss = <<>> THEN <<>> ELSE Head(ss) \o Concat(Tail(ss))

(* ' '.join(move_history) *)
RECURSIVE Join(_)
Join(ms) ==
  IF ms = <<>> THEN <<>>
  ELSE IF Len(ms) = 1 THEN ms[1]
  ELSE ms[1] \o <<" ">> \o Join(Tail(ms))

(* position_key.split(' ') *)
RECURSIVE SplitFrom(_, _, _, _)
SplitFrom(s, j, cur, acc) ==
  IF j > Len(s) THEN Append(acc, cur)
  ELSE IF s[j] = " " THEN SplitFrom(s, j + 1, <<>>, Append(acc, cur))
  ELSE SplitFrom(s, j + 1, Append(cur, s[j]), acc)

Split(s) == SplitFrom(s, 1, <<>>, <<>>)

(* ---- the defaultdict ---- *)
NewEntry(k) == [key |-> k, moves |-> <<>>, frequencies |-> <<>>, total_games |-> 0]

Keys(db) == {db[n].key : n \in 1..Len(db)}

Find(db, k) == CHOOSE n \in 1..Len(db) : db[n].key = k

(* self.game_database[position_key]: a missing key is inserted with the default *)
Touch(db, k) == IF k \in Keys(db) THEN db ELSE Append(db, NewEntry(k))

IndexOf(list, x) == CHOOSE n \in 1..Len(list) : list[n] = x /\ \A m \in 1..(n - 1) : list[m] # x

(* ---- process_game ---- *)
LoopBoundUncapped(moves) == Len(moves)

LoopBound(moves) == Min(Len(moves), max_depth)

HasNext(moves, n) == n + 1 < Len(moves)

IncTotalAssign(db, k) ==
  LET d == Touch(db, k)
  IN  [d EXCEPT ![Find(d, k)].total_games = 1]

IncTotal(db, k) ==
  LET d == Touch(db, k)
  IN  [d EXCEPT ![Find(d, k)].total_games = @ + 1]

AddNextFirstIndex(db, k, next_move) ==
  LET n == Find(db, k)
      position_data == db[n]
  IN  IF next_move \in Range(position_data.moves)
      THEN [db EXCEPT ![n].frequencies[1] = @ + 1]
      ELSE [db EXCEPT ![n].moves = Append(@, next_move),
                      ![n].frequencies = Append(@, 1)]

AddNextAppend(db, k, next_move) ==
  LET n == Find(db, k)
  IN  [db EXCEPT ![n].moves = Append(@, next_move),
                 ![n].frequencies = Append(@, 1)]

AddNext(db, k, next_move) ==
  LET n == Find(db, k)
      position_data == db[n]
  IN  IF next_move \in Range(position_data.moves)
      THEN [db EXCEPT ![n].frequencies[IndexOf(position_data.moves, next_move)] = @ + 1]
      ELSE [db EXCEPT ![n].moves = Append(@, next_move),
                      ![n].frequencies = Append(@, 1)]

(* one iteration of the for loop; n is the 0-based index i of the source *)
RECURSIVE process_loop(_, _, _)
process_loop(db, moves, n) ==
  IF n >= LoopBound(moves) THEN db
  ELSE LET position_key == Join(SubSeq(moves, 1, n + 1))
           db1 == IncTotal(db, position_key)
           db2 == IF HasNext(moves, n)
                  THEN AddNext(db1, position_key, moves[n + 2])
                  ELSE db1
       IN  IF Len(db2) >= 0 THEN process_loop(db2, moves, n + 1) ELSE db2

process_game(db, moves) == IF Len(moves) < 4 THEN db ELSE process_loop(db, moves, 0)

(* ---- filter_weak_moves ---- *)
WeakPosition(data) == data.total_games < min_games

min_frequency_flat(data) == 1

(* max(1, int(total_games * 0.15)): the double product truncates to the same
   integer as floor(15 * total_games / 100) for every total_games up to 2 * max_games *)
min_frequency(data) == Max(1, (data.total_games * 15) \div 100)

moves_to_remove(data) ==
  LET weak(n) == data.frequencies[n] < min_frequency(data)
      RECURSIVE collect(_)
      collect(n) == IF n > Len(data.moves) THEN <<>>
                    ELSE IF weak(n) THEN <<n>> \o collect(n + 1) ELSE collect(n + 1)
  IN  collect(1)

Pop(list, n) == SubSeq(list, 1, n - 1) \o SubSeq(list, n + 1, Len(list))

(* for i in reversed(moves_to_remove): list.pop(i) *)
RECURSIVE PopReversed(_, _)
PopReversed(list, idxs) ==
  IF idxs = <<>> THEN list
  ELSE PopReversed(Pop(list, idxs[Len(idxs)]), SubSeq(idxs, 1, Len(idxs) - 1))

FilterEntryMovesOnly(data) ==
  [data EXCEPT !.moves = PopReversed(@, moves_to_remove(data))]

FilterEntry(data) ==
  [data EXCEPT !.moves = PopReversed(@, moves_to_remove(data)),
               !.frequencies = PopReversed(@, moves_to_remove(data))]

Pruned(db) == [n \in 1..Len(db) |-> IF WeakPosition(db[n]) THEN db[n] ELSE FilterEntry(db[n])]

positions_to_remove(db) ==
  {db[n].key : n \in {m \in 1..Len(db) : WeakPosition(db[m]) \/ Pruned(db)[m].moves = <<>>}}

filter_weak_moves(db) ==
  LET gone == positions_to_remove(db)
      keep(e) == e.key \notin gone
  IN  SelectSeq(Pruned(db), keep)

(* ---- generate_opening_book ---- *)
is_white_odd(position_key) == Len(Split(position_key)) % 2 = 1

is_white(position_key) == Len(Split(position_key)) % 2 = 0

Lines(data) == [n \in 1..Len(data.moves) |-> data.key \o <<" ">> \o data.moves[n]]

Bucket(db, white) ==
  Concat([n \in 1..Len(db) |-> IF is_white(db[n].key) = white THEN Lines(db[n]) ELSE <<>>])

generate_opening_book(db) == [white |-> Bucket(db, TRUE), black |-> Bucket(db, FALSE)]

(* ---- main: list(set(a + b)) ---- *)
MergeBucketSecond(a, b) == SetToBag(Range(b))

MergeBucket(a, b) == SetToBag(Range(a \o b))

NoBook == [white |-> <<>>, black |-> <<>>]

NoMerged == [white |-> EmptyBag, black |-> EmptyBag]

RECURSIVE ProcessAll(_, _)
ProcessAll(db, rs) ==
  IF rs = <<>> THEN db
  ELSE LET db1 == process_game(db, Head(rs))
       IN  IF Len(db1) >= 0 THEN ProcessAll(db1, Tail(rs)) ELSE db1

(* the (key, continuation) pairs of a mapping *)
Pairs(db) == UNION {{<<db[n].key, db[n].moves[m]>> : m \in 1..Len(db[n].moves)} : n \in 1..Len(db)}

(* ---- construction: LichessOpeningBookBuilder() in main, first file opened ---- *)
Init ==
  /\ pc = "loop"
  /\ file = 1
  /\ i = 0
  /\ game_database = <<>>
  /\ processed_games = 0
  /\ opening_book_2014 = NoBook
  /\ opening_book_2016 = NoBook
  /\ merged_book = NoMerged
  /\ budget = MaxRecords
  /\ records = <<>>
  /\ before_filter = <<>>
  /\ removed_keys = {}
  /\ removed_moves = {}

(* the same run after BulkStart records of the first file, all LongGame *)
InitBulk ==
  /\ pc = "loop"
  /\ file = 1
  /\ i = BulkStart
  /\ records = [n \in 1..BulkStart |-> LongGame]
  /\ game_database = ProcessAll(<<>>, records)
  /\ processed_games = BulkStart
  /\ opening_book_2014 = NoBook
  /\ opening_book_2016 = NoBook
  /\ merged_book = NoMerged
  /\ budget = BulkRecords
  /\ before_filter = <<>>
  /\ removed_keys = {}
  /\ removed_moves = {}

(* one iteration of the loop over games[:max_games] in process_pgn_file *)
ProcessRecord ==
  /\ pc = "loop"
  /\ i < max_games
  /\ budget > 0
  /\ \E moves \in Games :
       /\ game_database' = IF moves # <<>> THEN process_game(game_database, moves)
                                           ELSE game_database
       /\ processed_games' = IF moves # <<>> THEN processed_games + 1 ELSE processed_games
       /\ records' = Append(records, moves)
  /\ i' = i + 1
  /\ budget' = budget - 1
  /\ UNCHANGED <<pc, file, opening_book_2014, opening_book_2016, merged_book,
                 before_filter, removed_keys, removed_moves>>

(* the loop has run over every record of the file *)
EndOfGames ==
  /\ pc = "loop"
  /\ pc' = "filter"
  /\ UNCHANGED <<file, i, game_database, processed_games, opening_book_2014,
                 opening_book_2016, merged_book, budget, records, before_filter,
                 removed_keys, removed_moves>>

(* self.filter_weak_moves() *)
FilterWeakMoves ==
  /\ pc = "filter"
  /\ game_database' = filter_weak_moves(game_database)
  /\ before_filter' = game_database
  /\ removed_keys' = removed_keys \cup positions_to_remove(game_database)
  /\ removed_moves' = removed_moves \cup (Pairs(game_database) \ Pairs(game_database'))
  /\ pc' = "generate"
  /\ UNCHANGED <<file, i, processed_games, opening_book_2014, opening_book_2016,
                 merged_book, budget, records>>

(* opening_book = self.generate_opening_book(); return; main goes on *)
GenerateOpeningBook ==
  /\ pc = "generate"
  /\ IF file = 1
     THEN /\ opening_book_2014' = generate_opening_book(game_database)
          /\ file' = 2
          /\ i' = 0
          /\ records' = <<>>
          /\ pc' = "loop"
          /\ UNCHANGED opening_book_2016
     ELSE /\ opening_book_2016' = generate_opening_book(game_database)
          /\ pc' = "merge"
          /\ UNCHANGED <<opening_book_2014, file, i, records>>
  /\ UNCHANGED <<game_database, processed_games, merged_book, budget, before_filter,
                 removed_keys, removed_moves>>

(* merged_book = {'white': list(set(...)), 'black': list(set(...))} *)
MergeBooks ==
  /\ pc = "merge"
  /\ merged_book' = [white |-> MergeBucket(opening_book_2014.white, opening_book_2016.white),
                     black |-> MergeBucket(opening_book_2014.black, opening_book_2016.black)]
  /\ pc' = "done"
  /\ UNCHANGED <<file, i, game_database, processed_games, opening_book_2014,
                 opening_book_2016, budget, records, before_filter, removed_keys,
                 removed_moves>>

Next == ProcessRecord \/ EndOfGames \/ FilterWeakMoves \/ GenerateOpeningBook \/ MergeBooks

Spec == Init /\ [][Next]_vars

SpecBulk == InitBulk /\ [][Next]_vars

(* ======================= properties ======================= *)

(* number of separator-delimited tokens of a string *)
CountTokens(str) == 1 + Cardinality({j \in 1..Len(str) : str[j] = " "})

Copies(list, x) == Cardinality({n \in 1..Len(list) : list[n] = x})

NoDup(list) == \A n, m \in 1..Len(list) : list[n] = list[m] => n = m

Zip(data) == [n \in 1..Len(data.moves) |-> <<data.moves[n], data.frequencies[n]>>]

Count(db, k, mv) == LET d == db[Find(db, k)] IN d.frequencies[IndexOf(d.moves, mv)]

SameCounts(a, b) ==
  /\ Keys(a) = Keys(b)
  /\ \A k \in Keys(a) : a[Find(a, k)].total_games = b[Find(b, k)].total_games
  /\ Pairs(a) = Pairs(b)
  /\ \A p \in Pairs(a) : Count(a, p[1], p[2]) = Count(b, p[1], p[2])

(* the records of a file, regrouped by kind of game *)
SortedRecords(rs) ==
  LET same(n) == SelectSeq(rs, LAMBDA r : r = GameList[n])
  IN  Concat([n \in 1..Len(GameList) |-> same(n)])

Books == {opening_book_2014, opening_book_2016}

BookLines(b) == Range(b.white) \cup Range(b.black)

(* generate_opening_book has just returned and the mapping is as it left it *)
JustGenerated == (pc = "loop" /\ file = 2 /\ i = 0) \/ pc \in {"merge", "done"}

LastBook == IF pc = "loop" THEN opening_book_2014 ELSE opening_book_2016

(* C1, as stated: no move at index >= max_depth is part of a key or recorded as a
   continuation, so a key of exactly max_depth tokens has no continuation and no
   book line has more than max_depth tokens. *)
C1_Original ==
  /\ \A n \in 1..Len(game_database) :
        /\ CountTokens(game_database[n].key) <= max_depth
        /\ CountTokens(game_database[n].key) = max_depth => game_database[n].moves = <<>>
  /\ \A b \in Books : \A line \in BookLines(b) : CountTokens(line) <= max_depth

(* C1, amended: a key has at most max_depth tokens; every continuation of a key of
   n tokens is the move at index n <= max_depth of a game of at least 4 moves whose
   first n moves spell the key; while a file is read, a record longer than max_depth
   has its move at index max_depth recorded under its key of max_depth tokens; no
   book line has more than max_depth + 1 tokens. *)
C1_DepthCap ==
  /\ \A n \in 1..Len(game_database) :
        LET data == game_database[n]
            len == CountTokens(data.key)
        IN  /\ len <= max_depth
            /\ \A mv \in Range(data.moves) :
                  \E g \in Games : /\ Len(g) >= 4
                                   /\ len < Len(g)
                                   /\ Join(SubSeq(g, 1, len)) = data.key
                                   /\ g[len + 1] = mv
  /\ pc = "loop" =>
        \A g \in Range(records) :
          Len(g) > max_depth =>
            <<Join(SubSeq(g, 1, max_depth)), g[max_depth + 1]>> \in Pairs(game_database)
  /\ \A b \in Books : \A line \in BookLines(b) : CountTokens(line) <= max_depth + 1

C1_Witness ==
  /\ \E n \in 1..Len(game_database) :
        /\ CountTokens(game_database[n].key) = max_depth
        /\ game_database[n].moves = <<LongGame[max_depth + 1]>>
  /\ \E line \in BookLines(opening_book_2014) : CountTokens(line) = max_depth + 1

(* C2: the book returned for a file is the book a fresh builder returns for that
   file's records alone. *)
C2_PerFileBook ==
  pc \in {"merge", "done"} =>
    LET alone == generate_opening_book(filter_weak_moves(ProcessAll(<<>>, records)))
    IN  /\ Range(opening_book_2016.white) = Range(alone.white)
        /\ Range(opening_book_2016.black) = Range(alone.black)

(* C3: right after filter_weak_moves every key has total_games >= min_games and
   every continuation count c has c >= max(1, floor(0.15 * total_games)), that is
   c >= 1 and c + 1 > 0.15 * total_games. *)
C3_FilterThresholds ==
  pc = "generate" =>
    \A n \in 1..Len(game_database) :
      LET data == game_database[n]
      IN  /\ data.total_games >= min_games
          /\ \A m \in 1..Len(data.frequencies) :
                /\ data.frequencies[m] >= 1
                /\ 100 * (data.frequencies[m] + 1) > 15 * data.total_games

C3_Witness ==
  /\ pc = "generate"
  /\ \E n \in 1..Len(game_database) :
        /\ (game_database[n].total_games * 15) \div 100 >= 2
        /\ \E p \in removed_moves : p[1] = game_database[n].key
  /\ removed_keys # {}

(* C4: a key or (key, continuation) pair removed by filter_weak_moves is never in
   the mapping again. *)
C4_NoReappear ==
  /\ Keys(game_database) \cap removed_keys = {}
  /\ Pairs(game_database) \cap removed_moves = {}

(* C5: from an empty mapping, the records of the first file folded in the order
   read give the same keys, total_games and continuation counts as the same
   records folded grouped by kind, so any two orders of a multiset agree. *)
C5_OrderIndependent ==
  (file = 1 /\ pc = "loop") =>
    SameCounts(game_database, ProcessAll(<<>>, SortedRecords(records)))

C5_Witness ==
  /\ file = 1
  /\ pc = "loop"
  /\ Len(records) >= 3
  /\ game_database # ProcessAll(<<>>, SortedRecords(records))

(* C6: every continuation of a key of n tokens is emitted once, as key + ' ' + move,
   in white and not in black when n is even, in black and not in white when n is
   odd, and nothing else is emitted. *)
C6_BucketByParity ==
  JustGenerated =>
    /\ \A n \in 1..Len(game_database) :
          LET data == game_database[n]
              even == CountTokens(data.key) % 2 = 0
          IN  \A m \in 1..Len(data.moves) :
                LET line == data.key \o <<" ">> \o data.moves[m]
                IN  /\ Copies(LastBook.white, line) = (IF even THEN 1 ELSE 0)
                    /\ Copies(LastBook.black, line) = (IF even THEN 0 ELSE 1)
    /\ Len(LastBook.white) + Len(LastBook.black) = Cardinality(Pairs(game_database))

C6_Witness ==
  /\ JustGenerated
  /\ Len(LastBook.white) >= 2
  /\ Len(LastBook.black) >= 2

(* C7: no bucket of a per-file book and no bucket of the merged book holds a line
   twice. *)
C7_NoDuplicateLines ==
  /\ \A b \in Books : NoDup(b.white) /\ NoDup(b.black)
  /\ \A line \in BagToSet(merged_book.white) : CopiesIn(line, merged_book.white) = 1
  /\ \A line \in BagToSet(merged_book.black) : CopiesIn(line, merged_book.black) = 1

C7_Witness ==
  /\ pc = "done"
  /\ Range(opening_book_2014.white) \cap Range(opening_book_2016.white) # {}
  /\ Range(opening_book_2016.black) \ Range(opening_book_2014.black) # {}
  /\ BagCardinality(merged_book.black) >= 2

(* C8: each merged bucket holds exactly the lines of the same bucket of the two
   per-file books, none from the other bucket, and a book merged with itself has
   the line sets of the book, each line once. *)
C8_MergeIsUnion ==
  pc = "done" =>
    /\ BagToSet(merged_book.white) = Range(opening_book_2014.white) \cup Range(opening_book_2016.white)
    /\ BagToSet(merged_book.black) = Range(opening_book_2014.black) \cup Range(opening_book_2016.black)
    /\ BagToSet(merged_book.white) \cap BagToSet(merged_book.black) = {}
    /\ \A b \in Books :
          /\ MergeBucket(b.white, b.white) = SetToBag(Range(b.white))
          /\ MergeBucket(b.black, b.black) = SetToBag(Range(b.black))

C8_Witness ==
  /\ pc = "done"
  /\ Range(opening_book_2014.black) \ Range(opening_book_2016.black) # {}
  /\ Range(opening_book_2016.white) # {}

(* C9: moves and frequencies always have equal length, and right after
   filter_weak_moves the (move, count) pairs of a surviving key are its pairs from
   before the call whose count reaches the threshold, in the same order. *)
C9_AlignedRemoval ==
  /\ \A n \in 1..Len(game_database) :
        Len(game_database[n].moves) = Len(game_database[n].frequencies)
  /\ pc = "generate" =>
        \A n \in 1..Len(game_database) :
          LET data == game_database[n]
              old == before_filter[Find(before_filter, data.key)]
              strong(p) == p[2] >= 1 /\ 100 * (p[2] + 1) > 15 * old.total_games
          IN  /\ data.total_games = old.total_games
              /\ Zip(data) = SelectSeq(Zip(old), strong)

C9_Witness ==
  /\ pc = "generate"
  /\ \E n \in 1..Len(game_database) :
        LET data == game_database[n]
            old == before_filter[Find(before_filter, data.key)]
        IN  /\ Len(data.moves) >= 1
            /\ Len(old.moves) > Len(data.moves)

(* C10: in every state the continuation counts of a key sum to at most its
   total_games and each of them is at least 1. *)
C10_CountsBounded ==
  \A n \in 1..Len(game_database) :
    LET data == game_database[n]
    IN  /\ Sum(data.frequencies) <= data.total_games
        /\ \A m \in 1..Len(data.frequencies) : data.frequencies[m] >= 1

C10_Witness ==
  /\ file = 2
  /\ pc = "filter"
  /\ records # <<>>
  /\ \E n \in 1..Len(game_database) : game_database[n].total_games >= 4
  /\ \E n \in 1..Len(game_database) :
        Sum(game_database[n].frequencies) < game_database[n].total_games
====
